---- MODULE Spec2Model ----
(***************************************************************************)
(* A model of the exchange-rs limit order book matching engine: the order  *)
(* and limit-order state machines, trade construction, the two-index       *)
(* order book with its mutable best-handle, the policies and the matching  *)
(* loop.                                                                   *)
(*                                                                         *)
(* Amounts (Quantity, Notional) are integers that count steps of the       *)
(* decimal type; prices are whole numbers.  Sums, differences and products *)
(* are exact, a quotient is rounded to the nearest step as the decimal     *)
(* type rounds to its last digit.                                          *)
(***************************************************************************)
EXTENDS Integers, Sequences, FiniteSets, TLC

VARIABLES
    orders_by_id,    \* Orderbook.orders_by_id : id -> resting LimitOrder
    orders_by_side,  \* Orderbook.orders_by_side : side -> price -> FIFO of ids
    failure,         \* "none", or the message of the panic that ended the engine
    incoming_order,  \* the taker of the last matching call, as the call left it
    trades,          \* the trades of the last matching call, in order
    book_before,     \* the book as it was when the last operation began
    last_op,         \* the last book operation and what it found
    maker,           \* order pair specification: the resting order
    taker,           \* order pair specification: the incoming order
    outcome,         \* order pair specification: the last operation on the pair
    pipeline,        \* which binary runs: "exchange" or "matching-engine"
    input,           \* the lines of the source, in order
    reader,          \* how many lines the shared reader has handed out
    workers,         \* decoder threads: what each one does and the line it holds
    input_rx,        \* exchange: the queue from the decoder to the connector
    connector,       \* exchange: the forwarding task of Runtime::run and the line it holds
    rx,              \* the queue to the engine (lines whose request it carries)
    run,             \* the engine loop: "running", or how it ended
    processed,       \* Runtime.processed, or the count i of main
    sent,            \* the lines whose requests the decoders have sent, in order
    handled,         \* the lines whose requests the engine has taken, in order
    last_error       \* the error of the last process call, <<>> if it was Ok

vars == <<orders_by_id, orders_by_side, failure, incoming_order, trades,
          book_before, last_op, maker, taker, outcome, pipeline, input,
          reader, workers, input_rx, connector, rx, run, processed, sent,
          handled, last_error>>

pipe_vars == <<pipeline, input, reader, workers, input_rx, connector, rx, run,
               processed, sent, handled, last_error>>

book_vars == <<orders_by_id, orders_by_side, failure, incoming_order, trades,
               book_before, last_op>>

pair_vars == <<maker, taker, outcome>>

\* ------------------------------------------------------------------ bounds
MaxId == 2
MaxQty == 2
MaxPriceStep == 2
MaxResting == 4
MaxFunds == 4
MaxLines == 3
MaxWorkers == 2
MaxQueue == 2

Ids == 1..MaxId
\* Odd whole prices: a quotient by an odd price is never a rounding tie.
Prices == {2 * i - 1 : i \in 1..MaxPriceStep}
Sizes == 0..MaxQty
Funds == 0..MaxFunds

Min(a, b) == IF a <= b THEN a ELSE b

\* ------------------------------------------------------------ value types
OrderSide == {"Ask", "Bid"}

opposite(side) == IF side = "Ask" THEN "Bid" ELSE "Ask"

OrderStatus == {"Open", "Partial", "Cancelled", "Closed", "Completed"}

\* Notional / Price -> Quantity, rounded to the nearest step (half to even).
Div(notional, price) ==
    LET q == notional \div price
        r == notional % price
    IN  IF 2 * r > price \/ (2 * r = price /\ q % 2 = 1) THEN q + 1 ELSE q

\* Quantity * Price -> Notional.
Mul(quantity, price) == quantity * price

\* ------------------------------------------------------------------ Order
\* Order::new: an incoming order, status Open.  limit_price 0 stands for
\* None, and quantity holds the funds of a funds-priced market order.
Order_new(id, side, type_, limit_price, time_in_force, flag, priced_by, size) ==
    [id |-> id, side |-> side, type_ |-> type_, limit_price |-> limit_price,
     time_in_force |-> time_in_force,
     post_only |-> (time_in_force = "GTC" /\ flag),
     all_or_none |-> (time_in_force # "GTC" /\ flag),
     priced_by |-> priced_by, quantity |-> size, filled |-> 0,
     status |-> "Open"]

LimitOrders(ids) ==
    {Order_new(id, side, "Limit", p, tif, flag, "Base", q) :
        id \in ids, side \in OrderSide, p \in Prices, tif \in {"GTC", "IOC"},
        flag \in BOOLEAN, q \in Sizes}

MarketOrders(ids) ==
    {Order_new(id, side, "Market", 0, "IOC", flag, "Base", q) :
        id \in ids, side \in OrderSide, flag \in BOOLEAN, q \in Sizes}
    \cup
    {Order_new(id, side, "Market", 0, "IOC", flag, "Funds", f) :
        id \in ids, side \in OrderSide, flag \in BOOLEAN, f \in Funds}

IncomingOrders(ids) == LimitOrders(ids) \cup MarketOrders(ids)

\* Either<Notional, Quantity>: left = TRUE is a Notional.
Order_remaining(o) ==
    [left |-> (o.type_ = "Market" /\ o.priced_by = "Funds"),
     val |-> o.quantity - o.filled]

Order_limit_price(o) == IF o.type_ = "Limit" THEN <<o.limit_price>> ELSE <<>>

Order_is_closed(o) == o.status \in {"Cancelled", "Closed", "Completed"}

Order_is_open(o) == ~Order_is_closed(o)

Order_is_fill_or_kill(o) ==
    IF o.type_ = "Market" \/ o.time_in_force = "IOC" THEN o.all_or_none
    ELSE FALSE

\* is_immediate_or_cancel that forgets the market orders.
Order_is_immediate_or_cancel_mut(o) ==
    o.type_ = "Limit" /\ o.time_in_force = "IOC"

Order_is_immediate_or_cancel(o) ==
    (o.type_ = "Limit" /\ o.time_in_force = "IOC") \/ o.type_ = "Market"

Order_is_post_only(o) ==
    o.type_ = "Limit" /\ o.time_in_force = "GTC" /\ o.post_only

\* fill_unchecked that never sets Completed.
Order_fill_unchecked_mut(o, quantity, price) ==
    [o EXCEPT !.filled = IF Order_remaining(o).left
                         THEN o.filled + Mul(quantity, price)
                         ELSE o.filled + quantity,
              !.status = "Partial"]

Order_fill_unchecked(o, quantity, price) ==
    LET filled == IF Order_remaining(o).left
                  THEN o.filled + Mul(quantity, price)
                  ELSE o.filled + quantity
        o2 == [o EXCEPT !.filled = filled]
    IN  [o2 EXCEPT !.status = IF Order_remaining(o2).val = 0
                              THEN "Completed" ELSE "Partial"]

\* try_fill that compares the quantity with what remains, whatever the order
\* is priced by.
Order_try_fill_mut(o, quantity, price) ==
    IF quantity = 0 THEN [err |-> "NoFill", order |-> o]
    ELSE IF quantity > Order_remaining(o).val
    THEN [err |-> "Overfill", order |-> o]
    ELSE [err |-> "Ok", order |-> Order_fill_unchecked(o, quantity, price)]

Order_try_fill(o, quantity, price) ==
    IF quantity = 0 THEN [err |-> "NoFill", order |-> o]
    ELSE IF Order_remaining(o).left /\ Mul(quantity, price) > Order_remaining(o).val
    THEN [err |-> "Overfill", order |-> o]
    ELSE IF ~Order_remaining(o).left /\ quantity > Order_remaining(o).val
    THEN [err |-> "Overfill", order |-> o]
    ELSE [err |-> "Ok", order |-> Order_fill_unchecked(o, quantity, price)]

Order_cancel_mut(o) ==
    IF o.status \in {"Open", "Partial"}
    THEN [o EXCEPT !.status = "Cancelled"] ELSE o

Order_cancel(o) ==
    IF o.status = "Open" THEN [o EXCEPT !.status = "Cancelled"]
    ELSE IF o.status = "Partial" THEN [o EXCEPT !.status = "Closed"]
    ELSE o

\* ------------------------------------------------------------- LimitOrder
LimitOrder_remaining(o) == o.quantity - o.filled

LimitOrder_is_closed(o) == o.status \in {"Cancelled", "Closed", "Completed"}

\* fill_unchecked that never sets Completed.
LimitOrder_fill_unchecked_mut(o, quantity) ==
    [o EXCEPT !.filled = o.filled + quantity, !.status = "Partial"]

LimitOrder_fill_unchecked(o, quantity) ==
    LET o2 == [o EXCEPT !.filled = o.filled + quantity]
    IN  [o2 EXCEPT !.status = IF LimitOrder_remaining(o2) = 0
                              THEN "Completed" ELSE "Partial"]

LimitOrder_try_fill(o, quantity) ==
    IF quantity = 0 THEN [err |-> "NoFill", order |-> o]
    ELSE IF quantity > LimitOrder_remaining(o)
    THEN [err |-> "Overfill", order |-> o]
    ELSE [err |-> "Ok", order |-> LimitOrder_fill_unchecked(o, quantity)]

LimitOrder_cancel(o) ==
    IF o.status = "Open" THEN [o EXCEPT !.status = "Cancelled"]
    ELSE IF o.status = "Partial" THEN [o EXCEPT !.status = "Closed"]
    ELSE o

\* matches without its check of the closed states.
LimitOrder_matches_mut(m, t) ==
    IF Order_limit_price(t) = <<>> THEN "Ok"
    ELSE IF t.side = m.side THEN "SameSide"
    ELSE LET ask_price == IF t.side = "Ask" THEN t.limit_price ELSE m.unit_price
             bid_price == IF t.side = "Ask" THEN m.unit_price ELSE t.limit_price
         IN  IF bid_price >= ask_price THEN "Ok" ELSE "Incompatible"

\* matches with a crossing that needs the bid strictly above the ask.
LimitOrder_matches_strict(m, t) ==
    IF Order_is_closed(t) \/ LimitOrder_is_closed(m) THEN "Closed"
    ELSE IF Order_limit_price(t) = <<>> THEN "Ok"
    ELSE IF t.side = m.side THEN "SameSide"
    ELSE LET ask_price == IF t.side = "Ask" THEN t.limit_price ELSE m.unit_price
             bid_price == IF t.side = "Ask" THEN m.unit_price ELSE t.limit_price
         IN  IF bid_price > ask_price THEN "Ok" ELSE "Incompatible"

\* maker.matches(taker): "Ok" or the error.
LimitOrder_matches(m, t) ==
    IF Order_is_closed(t) \/ LimitOrder_is_closed(m) THEN "Closed"
    ELSE IF Order_limit_price(t) = <<>> THEN "Ok"
    ELSE IF t.side = m.side THEN "SameSide"
    ELSE LET ask_price == IF t.side = "Ask" THEN t.limit_price ELSE m.unit_price
             bid_price == IF t.side = "Ask" THEN m.unit_price ELSE t.limit_price
         IN  IF bid_price >= ask_price THEN "Ok" ELSE "Incompatible"

\* A conversion that takes every limit order, whatever its time in force.
LimitOrder_try_from_mut(o) ==
    IF o.type_ = "Limit"
    THEN <<[id |-> o.id, side |-> o.side, unit_price |-> o.limit_price,
            post_only |-> o.post_only, quantity |-> o.quantity,
            filled |-> o.filled, status |-> o.status]>>
    ELSE <<>>

\* From<LimitOrder> for Order: a limit order, good till cancel, priced by
\* base.
Order_from(limit) ==
    [id |-> limit.id, side |-> limit.side, type_ |-> "Limit",
     limit_price |-> limit.unit_price, time_in_force |-> "GTC",
     post_only |-> limit.post_only, all_or_none |-> FALSE,
     priced_by |-> "Base", quantity |-> limit.quantity,
     filled |-> limit.filled, status |-> limit.status]

\* TryFrom<Order> for LimitOrder: <<limit order>> or <<>> (Incompatible).
LimitOrder_try_from(o) ==
    IF o.type_ = "Limit" /\ o.time_in_force = "GTC"
    THEN <<[id |-> o.id, side |-> o.side, unit_price |-> o.limit_price,
            post_only |-> o.post_only, quantity |-> o.quantity,
            filled |-> o.filled, status |-> o.status]>>
    ELSE <<>>

\* ------------------------------------------------------------------ Trade
Trade_price_mut(m, t) == IF t.type_ = "Limit" THEN t.limit_price ELSE m.unit_price

Trade_price(m, t) == m.unit_price

Trade_exchanged_mut(m, t, price) ==
    Min(1, Min(IF Order_remaining(t).left THEN Div(Order_remaining(t).val, price)
               ELSE Order_remaining(t).val,
               LimitOrder_remaining(m)))

Trade_exchanged(m, t, price) ==
    Min(IF Order_remaining(t).left THEN Div(Order_remaining(t).val, price)
        ELSE Order_remaining(t).val,
        LimitOrder_remaining(m))

\* The two fill() calls of Trade::try_new and the trade it returns: mf and
\* tf are maker.try_fill(exchanged) and taker.try_fill(exchanged, price).
Trade_filled(m, t, price, exchanged, mf, tf) ==
    IF mf.err # "Ok"
    THEN [result |-> "Panic", error |-> mf.err, maker |-> m, taker |-> t,
          trade |-> <<>>]
    ELSE IF tf.err # "Ok"
    THEN [result |-> "Panic", error |-> tf.err, maker |-> mf.order,
          taker |-> t, trade |-> <<>>]
    ELSE [result |-> "Ok", error |-> "none", maker |-> mf.order,
          taker |-> tf.order,
          trade |-> <<[taker |-> t.id, maker |-> m.id,
                       quantity |-> exchanged, price |-> price,
                       notional |-> Mul(exchanged, price)]>>]

\* Trade::try_new from the point where price and exchanged are known.
Trade_fill(m, t, price, exchanged) ==
    Trade_filled(m, t, price, exchanged, LimitOrder_try_fill(m, exchanged),
                 Order_try_fill(t, exchanged, price))

\* Trade::try_new from the point where the price is known.
Trade_at(m, t, price) == Trade_fill(m, t, price, Trade_exchanged(m, t, price))

\* Trade::try_new(maker, taker).  result is "Ok" (a trade), "Err" (matches
\* failed, nothing changed) or "Panic" (one of the two fill() calls failed).
Trade_try_new(m, t) ==
    IF LimitOrder_matches(m, t) # "Ok"
    THEN [result |-> "Err", error |-> LimitOrder_matches(m, t), maker |-> m,
          taker |-> t, trade |-> <<>>]
    ELSE Trade_at(m, t, Trade_price(m, t))

\* -------------------------------------------------------------- Orderbook
\* A book value: both indices.  A level is a key of orders_by_side[side];
\* a key whose FIFO is empty would be a dangling level.
Book(by_id, by_side) == [orders_by_id |-> by_id, orders_by_side |-> by_side]

EmptyFn == [x \in {} |-> x]

\* Orderbook::new
Orderbook_new == Book(EmptyFn, [side \in OrderSide |-> EmptyFn])

MapRemove(f, k) == [x \in (DOMAIN f) \ {k} |-> f[x]]

MapInsert(f, k, v) == [x \in (DOMAIN f) \cup {k} |-> IF x = k THEN v ELSE f[x]]

SeqRemoveAt(s, i) == [j \in 1..(Len(s) - 1) |-> IF j < i THEN s[j] ELSE s[j + 1]]

\* VecDeque::iter().position(..): index of the first occurrence, 0 if none.
Position(s, id) ==
    IF \E i \in 1..Len(s) : s[i] = id
    THEN CHOOSE i \in 1..Len(s) : s[i] = id /\ \A j \in 1..(i - 1) : s[j] # id
    ELSE 0

SetMin(S) == CHOOSE x \in S : \A y \in S : x <= y

SetMax(S) == CHOOSE x \in S : \A y \in S : x >= y

\* The key of the best level of a side: first key for asks, last for bids.
BestKey(by_side, side) ==
    IF side = "Ask" THEN SetMin(DOMAIN by_side[side])
    ELSE SetMax(DOMAIN by_side[side])

RECURSIVE FlatLevels(_, _, _)
FlatLevels(levels, keys, side) ==
    IF keys = {} THEN <<>>
    ELSE LET k == IF side = "Ask" THEN SetMin(keys) ELSE SetMax(keys)
         IN  levels[k] \o FlatLevels(levels, keys \ {k}, side)

\* OrdersBySide::iter: the ids of a side, asks by ascending and bids by
\* descending price, each level front to back.
OrdersBySide_iter(by_side, side) ==
    FlatLevels(by_side[side], DOMAIN by_side[side], side)

\* OrdersBySide::peek
OrdersBySide_peek(by_side, side) ==
    LET ids == OrdersBySide_iter(by_side, side)
    IN  IF ids = <<>> THEN <<>> ELSE <<Head(ids)>>

\* Orderbook::insert: push the id at the tail of its level, store the order.
Orderbook_insert(b, order) ==
    LET levels == b.orders_by_side[order.side]
        level == IF order.unit_price \in DOMAIN levels
                 THEN levels[order.unit_price] ELSE <<>>
    IN  Book(MapInsert(b.orders_by_id, order.id, order),
             [b.orders_by_side EXCEPT ![order.side] =
                 MapInsert(levels, order.unit_price, Append(level, order.id))])

\* Orderbook::remove with the level kept when its last id leaves.
Orderbook_remove_mut(b, order_id) ==
    IF order_id \notin DOMAIN b.orders_by_id
    THEN [book |-> b, order |-> <<>>, panic |-> "none"]
    ELSE LET order == b.orders_by_id[order_id]
             by_id == MapRemove(b.orders_by_id, order_id)
             levels == b.orders_by_side[order.side]
             level == levels[order.unit_price]
             index == Position(level, order.id)
         IN  IF order.unit_price \notin DOMAIN levels \/ index = 0
             THEN [book |-> Book(by_id, b.orders_by_side), order |-> <<>>,
                   panic |-> "indexed orders must be in the book tree"]
             ELSE [book |-> Book(by_id, [b.orders_by_side EXCEPT ![order.side] =
                               MapInsert(levels, order.unit_price,
                                         SeqRemoveAt(level, index))]),
                   order |-> <<order>>, panic |-> "none"]

\* Orderbook::remove(order_id): <<order>> or <<>>, the book after, and the
\* panic message if one of its expectations fails.
Orderbook_remove(b, order_id) ==
    IF order_id \notin DOMAIN b.orders_by_id
    THEN [book |-> b, order |-> <<>>, panic |-> "none"]
    ELSE LET order == b.orders_by_id[order_id]
             by_id == MapRemove(b.orders_by_id, order_id)
             levels == b.orders_by_side[order.side]
             level == levels[order.unit_price]
             index == Position(level, order.id)
         IN  IF order.unit_price \notin DOMAIN levels
             THEN [book |-> Book(by_id, b.orders_by_side), order |-> <<>>,
                   panic |-> "orders that lives in index must also be in the tree"]
             ELSE IF Len(level) = 1
             THEN [book |-> Book(by_id, [b.orders_by_side EXCEPT ![order.side] =
                               MapRemove(levels, order.unit_price)]),
                   order |-> <<order>>, panic |-> "none"]
             ELSE IF index = 0
             THEN [book |-> Book(by_id, b.orders_by_side), order |-> <<>>,
                   panic |-> "indexed orders must be in the book tree"]
             ELSE [book |-> Book(by_id, [b.orders_by_side EXCEPT ![order.side] =
                               MapInsert(levels, order.unit_price,
                                         SeqRemoveAt(level, index))]),
                   order |-> <<order>>, panic |-> "none"]

\* Orderbook::peek(side): the best order of a side.
Orderbook_peek(b, side) ==
    LET order_id == OrdersBySide_peek(b.orders_by_side, side)
    IN  IF order_id = <<>> THEN [order |-> <<>>, panic |-> "none"]
        ELSE IF order_id[1] \notin DOMAIN b.orders_by_id
        THEN [order |-> <<>>,
              panic |-> "every order that lives in tree must also be in the index"]
        ELSE [order |-> <<b.orders_by_id[order_id[1]]>>, panic |-> "none"]

\* Orderbook::peek_mut(side): the handle owns a copy of the best order.
Orderbook_peek_mut(b, side) == Orderbook_peek(b, side)

\* Drop for OrderRefMut of a closed order: removed is the result of
\* exchange.remove(id) after the write-back.
OrderRefMut_drop_closed(removed) ==
    IF removed.panic # "none"
    THEN [book |-> removed.book, panic |-> removed.panic]
    ELSE IF removed.order = <<>>
    THEN [book |-> removed.book,
          panic |-> "booked order must always be in the exchange"]
    ELSE [book |-> removed.book, panic |-> "none"]

\* Drop for OrderRefMut after the write-back: stored is the book with the
\* handle's order written to orders_by_id.
OrderRefMut_drop_stored(stored, order) ==
    IF ~LimitOrder_is_closed(order) THEN [book |-> stored, panic |-> "none"]
    ELSE OrderRefMut_drop_closed(Orderbook_remove(stored, order.id))

\* Drop for OrderRefMut: write the handle's order back; remove it if closed.
OrderRefMut_drop(b, order) ==
    OrderRefMut_drop_stored(
        Book(MapInsert(b.orders_by_id, order.id, order), b.orders_by_side), order)

\* Orderbook::pop(side): remove and return the best order of a side.
Orderbook_pop(b, side) ==
    IF DOMAIN b.orders_by_side[side] = {}
    THEN [book |-> b, order |-> <<>>, panic |-> "none"]
    ELSE LET levels == b.orders_by_side[side]
             key == BestKey(b.orders_by_side, side)
             level == levels[key]
             by_side == [b.orders_by_side EXCEPT ![side] =
                            IF Len(level) = 1 THEN MapRemove(levels, key)
                            ELSE MapInsert(levels, key, Tail(level))]
         IN  IF level = <<>>
             THEN [book |-> b, order |-> <<>>,
                   panic |-> "level should always have an order"]
             ELSE IF Head(level) \notin DOMAIN b.orders_by_id
             THEN [book |-> Book(b.orders_by_id, by_side), order |-> <<>>,
                   panic |-> "every order that lives in tree must also be in the index"]
             ELSE [book |-> Book(MapRemove(b.orders_by_id, Head(level)), by_side),
                   order |-> <<b.orders_by_id[Head(level)]>>, panic |-> "none"]

\* Orderbook::iter(side): the orders of a side in priority order; the lookup
\* of an id that is not in orders_by_id panics.
Orderbook_iter(b, side) ==
    LET ids == OrdersBySide_iter(b.orders_by_side, side)
    IN  IF \E i \in 1..Len(ids) : ids[i] \notin DOMAIN b.orders_by_id
        THEN [orders |-> <<>>,
              panic |-> "every order in tree must also be in index"]
        ELSE [orders |-> [i \in 1..Len(ids) |-> b.orders_by_id[ids[i]]],
              panic |-> "none"]

\* --------------------------------------------------------------- policies
\* The try_fold of FillOrKill::can_fill over the ids of the opposite side,
\* taken lazily: stop at the first maker that does not match, break as soon
\* as the remaining size is covered.
RECURSIVE can_fill_fold(_, _, _, _)
can_fill_fold(b, ids, order, remaining) ==
    IF ids = <<>> THEN [can |-> FALSE, panic |-> "none"]
    ELSE IF Head(ids) \notin DOMAIN b.orders_by_id
    THEN [can |-> FALSE, panic |-> "every order in tree must also be in index"]
    ELSE LET top == b.orders_by_id[Head(ids)]
             available == IF Order_remaining(order).left
                          THEN Mul(LimitOrder_remaining(top), top.unit_price)
                          ELSE LimitOrder_remaining(top)
             rest == remaining - Min(available, remaining)
         IN  IF LimitOrder_matches(top, order) # "Ok"
             THEN [can |-> FALSE, panic |-> "none"]
             ELSE IF rest = 0 THEN [can |-> TRUE, panic |-> "none"]
             ELSE can_fill_fold(b, Tail(ids), order, rest)

\* FillOrKill::can_fill
FillOrKill_can_fill(order, b) ==
    can_fill_fold(b, OrdersBySide_iter(b.orders_by_side, opposite(order.side)),
                  order, Order_remaining(order).val)

\* FillOrKill::enforce
FillOrKill_enforce(order, b) ==
    IF ~Order_is_fill_or_kill(order) THEN [order |-> order, panic |-> "none"]
    ELSE LET r == FillOrKill_can_fill(order, b)
         IN  IF r.panic # "none" THEN [order |-> order, panic |-> r.panic]
             ELSE IF ~r.can THEN [order |-> Order_cancel(order), panic |-> "none"]
             ELSE [order |-> order, panic |-> "none"]

\* PostOnly::enforce
PostOnly_enforce(order, b) ==
    IF ~Order_is_post_only(order) THEN [order |-> order, panic |-> "none"]
    ELSE LET top == Orderbook_peek(b, opposite(order.side))
         IN  IF top.panic # "none" THEN [order |-> order, panic |-> top.panic]
             ELSE IF top.order # <<>> /\ LimitOrder_matches(top.order[1], order) = "Ok"
             THEN [order |-> Order_cancel(order), panic |-> "none"]
             ELSE [order |-> order, panic |-> "none"]

\* ImmediateOrCancel::enforce
ImmediateOrCancel_enforce(order, b) ==
    IF Order_is_immediate_or_cancel(order) THEN Order_cancel(order) ELSE order

\* Before policies without PostOnly.
before_policies_mut(order, b) == FillOrKill_enforce(order, b)

\* before_policies: [FillOrKill, PostOnly], applied in this order.
before_policies(order, b) ==
    LET fok == FillOrKill_enforce(order, b)
    IN  IF fok.panic # "none" THEN fok ELSE PostOnly_enforce(fok.order, b)

\* late_policies: [ImmediateOrCancel]
late_policies(order, b) == ImmediateOrCancel_enforce(order, b)

\* ----------------------------------------------------------- MatchingAlgo
MatchResult(b, order, ts, panic) ==
    [book |-> b, order |-> order, trades |-> ts, panic |-> panic]

\* The while loop of MatchingAlgo::matching.  Each round takes the handle of
\* the best opposite order, trades, and releases the handle; a closed maker
\* is then removed by id.  A panic unwinds through the release of the handle.
RECURSIVE matching_loop(_, _, _)

\* The round after exchange.remove(top_order_id), whose result is removed.
loop_removed(t, ts, removed) ==
    IF removed.panic # "none"
    THEN MatchResult(removed.book, t.taker, ts \o t.trade, removed.panic)
    ELSE IF removed.order = <<>>
    THEN MatchResult(removed.book, t.taker, ts \o t.trade, "order should be Some")
    ELSE matching_loop(removed.book, t.taker, ts \o t.trade)

\* The round after the handle is released, which left the book released.book.
loop_released(order, ts, t, released) ==
    IF t.result = "Err"
    THEN MatchResult(released.book, order, ts, released.panic)
    ELSE IF t.result = "Panic"
    THEN MatchResult(released.book, t.taker, ts, t.error)
    ELSE IF released.panic # "none"
    THEN MatchResult(released.book, t.taker, ts \o t.trade, released.panic)
    ELSE IF ~LimitOrder_is_closed(t.maker)
    THEN matching_loop(released.book, t.taker, ts \o t.trade)
    ELSE loop_removed(t, ts, Orderbook_remove(released.book, t.maker.id))

\* The round after top_order.trade(&mut incoming_order), whose result is t.
loop_traded(b, order, ts, t) ==
    loop_released(order, ts, t, OrderRefMut_drop(b, t.maker))

\* The round after exchange.peek_mut(opposite side), whose result is top.
loop_peeked(b, order, ts, top) ==
    IF top.panic # "none" THEN MatchResult(b, order, ts, top.panic)
    ELSE IF top.order = <<>> THEN MatchResult(b, order, ts, "none")
    ELSE loop_traded(b, order, ts, Trade_try_new(top.order[1], order))

matching_loop(b, order, ts) ==
    IF Order_is_closed(order) THEN MatchResult(b, order, ts, "none")
    ELSE loop_peeked(b, order, ts, Orderbook_peek_mut(b, opposite(order.side)))

\* The end of matching: the order, as the late policies left it, is inserted
\* if it is open and converts to a limit order.
matching_insert(looped, late) ==
    IF Order_is_open(late) /\ LimitOrder_try_from(late) # <<>>
    THEN MatchResult(Orderbook_insert(looped.book, LimitOrder_try_from(late)[1]),
                     late, looped.trades, "none")
    ELSE MatchResult(looped.book, late, looped.trades, "none")

\* matching after the loop, whose result is looped.
matching_late(looped) ==
    IF looped.panic # "none" THEN looped
    ELSE matching_insert(looped, late_policies(looped.order, looped.book))

\* matching after the before policies, whose result is policed.
matching_before(b, policed) ==
    IF policed.panic # "none"
    THEN MatchResult(b, policed.order, <<>>, policed.panic)
    ELSE matching_late(matching_loop(b, policed.order, <<>>))

\* MatchingAlgo::matching(exchange, incoming_order)
matching(b, incoming) == matching_before(b, before_policies(incoming, b))

\* ------------------------------------------------------------ the engine
TheBook == Book(orders_by_id, orders_by_side)

NoOrderYet == Order_new(0, "Ask", "Market", 0, "IOC", FALSE, "Base", 0)

NoLimitYet == [id |-> 0, side |-> "Ask", unit_price |-> 0, post_only |-> FALSE,
               quantity |-> 0, filled |-> 0, status |-> "Open"]

\* What the last operation was, on what, and the order it returned.
Op(name, side, id, found) ==
    [name |-> name, side |-> side, id |-> id, found |-> found]

NoOp == Op("none", "Ask", 0, <<>>)

\* The last operation on the pair: its result and the pair as it was before.
Outcome(op, result, error, trade, m, t) ==
    [op |-> op, result |-> result, error |-> error, trade |-> trade,
     maker_before |-> m, taker_before |-> t]

NoOutcome == Outcome("none", "none", "none", <<>>, NoLimitYet, NoOrderYet)

PairIdle ==
    /\ maker = NoLimitYet
    /\ taker = NoOrderYet
    /\ outcome = NoOutcome

\* No binary runs: the book is driven directly.
PipelineIdle ==
    /\ pipeline = "none"
    /\ input = <<>>
    /\ reader = 0
    /\ workers = <<>>
    /\ input_rx = <<>>
    /\ connector = [state |-> "stopped", held |-> 0]
    /\ rx = <<>>
    /\ run = "none"
    /\ processed = 0
    /\ sent = <<>>
    /\ handled = <<>>
    /\ last_error = <<>>

Init ==
    /\ orders_by_id = Orderbook_new.orders_by_id
    /\ orders_by_side = Orderbook_new.orders_by_side
    /\ failure = "none"
    /\ incoming_order = NoOrderYet
    /\ book_before = Orderbook_new
    /\ trades = <<>>
    /\ last_op = NoOp
    /\ PairIdle
    /\ PipelineIdle

\* Number of ids held in the FIFOs of both sides.
Booked ==
    Len(OrdersBySide_iter(orders_by_side, "Ask"))
        + Len(OrdersBySide_iter(orders_by_side, "Bid"))

\* The engine takes the next request when the last one has returned and no
\* panic has ended the process.
Idle == failure = "none" /\ last_op = NoOp

\* A Create request, or a direct Exchange::matching call: match the order.
Create(order) ==
    /\ Idle
    /\ Booked < MaxResting
    /\ \E r \in {matching(TheBook, order)} :
           /\ orders_by_id' = r.book.orders_by_id
           /\ orders_by_side' = r.book.orders_by_side
           /\ failure' = r.panic
           /\ incoming_order' = r.order
           /\ trades' = r.trades
    /\ book_before' = TheBook
    /\ last_op' = Op("matching", order.side, order.id, <<order>>)
    /\ UNCHANGED pair_vars
    /\ UNCHANGED pipe_vars

\* A Delete request: Orderbook::remove(order_id).
Delete(order_id) ==
    /\ Idle
    /\ \E r \in {Orderbook_remove(TheBook, order_id)} :
           /\ orders_by_id' = r.book.orders_by_id
           /\ orders_by_side' = r.book.orders_by_side
           /\ failure' = r.panic
           /\ last_op' = Op("remove", "Ask", order_id, r.order)
    /\ book_before' = TheBook
    /\ UNCHANGED <<incoming_order, trades>>
    /\ UNCHANGED pair_vars
    /\ UNCHANGED pipe_vars

\* Exchange::pop(side).
Pop(side) ==
    /\ Idle
    /\ \E r \in {Orderbook_pop(TheBook, side)} :
           /\ orders_by_id' = r.book.orders_by_id
           /\ orders_by_side' = r.book.orders_by_side
           /\ failure' = r.panic
           /\ last_op' = Op("pop", side, 0, r.order)
    /\ book_before' = TheBook
    /\ UNCHANGED <<incoming_order, trades>>
    /\ UNCHANGED pair_vars
    /\ UNCHANGED pipe_vars

\* Exchange::peek_mut(side), the holder cancels the order or leaves it, and
\* the handle is released.
PeekMut(side, cancel) ==
    /\ Idle
    /\ LET top == Orderbook_peek_mut(TheBook, side)
           held == IF cancel THEN LimitOrder_cancel(top.order[1]) ELSE top.order[1]
           r == IF top.panic # "none" \/ top.order = <<>>
                THEN [book |-> TheBook, panic |-> top.panic]
                ELSE OrderRefMut_drop(TheBook, held)
       IN  /\ orders_by_id' = r.book.orders_by_id
           /\ orders_by_side' = r.book.orders_by_side
           /\ failure' = r.panic
           /\ last_op' = Op(IF cancel THEN "peek_mut_cancel" ELSE "peek_mut",
                            side, 0, top.order)
    /\ book_before' = TheBook
    /\ UNCHANGED <<incoming_order, trades>>
    /\ UNCHANGED pair_vars
    /\ UNCHANGED pipe_vars

\* The call returns; its result is dropped and the next request can come.
Return ==
    /\ failure = "none"
    /\ last_op # NoOp
    /\ last_op' = NoOp
    /\ incoming_order' = NoOrderYet
    /\ trades' = <<>>
    /\ book_before' = Orderbook_new
    /\ UNCHANGED <<orders_by_id, orders_by_side, failure>>
    /\ UNCHANGED pair_vars
    /\ UNCHANGED pipe_vars

Next ==
    \/ \E order \in IncomingOrders(Ids) : Create(order)
    \/ \E order_id \in Ids : Delete(order_id)
    \/ \E side \in OrderSide : Pop(side)
    \/ \E side \in OrderSide, cancel \in BOOLEAN : PeekMut(side, cancel)
    \/ Return

Spec == Init /\ [][Next]_vars

\* ------------------------------------------- one maker and one taker
\* The operations of Order and LimitOrder applied to one resting order and
\* one incoming order, in any sequence.
Makers ==
    {LimitOrder_try_from(o)[1] :
        o \in {x \in LimitOrders({1}) : x.time_in_force = "GTC"}}

Takers == IncomingOrders({MaxId})

\* The book the policies look at: the maker rests in it while it is open.
PolicyBook ==
    IF LimitOrder_is_closed(maker) THEN Orderbook_new
    ELSE Orderbook_insert(Orderbook_new, maker)

InitOrder ==
    /\ orders_by_id = Orderbook_new.orders_by_id
    /\ orders_by_side = Orderbook_new.orders_by_side
    /\ failure = "none"
    /\ incoming_order = NoOrderYet
    /\ book_before = Orderbook_new
    /\ trades = <<>>
    /\ last_op = NoOp
    /\ maker \in Makers
    /\ taker \in Takers
    /\ outcome = NoOutcome
    /\ PipelineIdle

\* A failed fill() is a panic: nothing runs after it.
Alive == outcome.result # "Panic"

\* maker.trade(&mut taker)
TradePair ==
    /\ Alive
    /\ LET r == Trade_try_new(maker, taker)
       IN  /\ maker' = r.maker
           /\ taker' = r.taker
           /\ outcome' = Outcome("trade", r.result, r.error, r.trade, maker, taker)
    /\ UNCHANGED book_vars
    /\ UNCHANGED pipe_vars

\* maker.try_fill(quantity)
FillMaker(quantity) ==
    /\ Alive
    /\ LET r == LimitOrder_try_fill(maker, quantity)
       IN  /\ maker' = r.order
           /\ outcome' = Outcome("fill_maker", IF r.err = "Ok" THEN "Ok" ELSE "Err",
                                 r.err, <<>>, maker, taker)
    /\ UNCHANGED taker
    /\ UNCHANGED book_vars
    /\ UNCHANGED pipe_vars

\* taker.try_fill(quantity, price)
FillTaker(quantity, price) ==
    /\ Alive
    /\ LET r == Order_try_fill(taker, quantity, price)
       IN  /\ taker' = r.order
           /\ outcome' = Outcome("fill_taker", IF r.err = "Ok" THEN "Ok" ELSE "Err",
                                 r.err, <<>>, maker, taker)
    /\ UNCHANGED maker
    /\ UNCHANGED book_vars
    /\ UNCHANGED pipe_vars

\* maker.cancel()
CancelMaker ==
    /\ Alive
    /\ maker' = LimitOrder_cancel(maker)
    /\ outcome' = Outcome("cancel_maker", "Ok", "none", <<>>, maker, taker)
    /\ UNCHANGED taker
    /\ UNCHANGED book_vars
    /\ UNCHANGED pipe_vars

\* taker.cancel()
CancelTaker ==
    /\ Alive
    /\ taker' = Order_cancel(taker)
    /\ outcome' = Outcome("cancel_taker", "Ok", "none", <<>>, maker, taker)
    /\ UNCHANGED maker
    /\ UNCHANGED book_vars
    /\ UNCHANGED pipe_vars

\* The before policies applied to the taker.
BeforePolicies ==
    /\ Alive
    /\ taker' = before_policies(taker, PolicyBook).order
    /\ outcome' = Outcome("before_policies", "Ok", "none", <<>>, maker, taker)
    /\ UNCHANGED maker
    /\ UNCHANGED book_vars
    /\ UNCHANGED pipe_vars

\* The late policies applied to the taker.
LatePolicies ==
    /\ Alive
    /\ taker' = late_policies(taker, PolicyBook)
    /\ outcome' = Outcome("late_policies", "Ok", "none", <<>>, maker, taker)
    /\ UNCHANGED maker
    /\ UNCHANGED book_vars
    /\ UNCHANGED pipe_vars

NextOrder ==
    \/ TradePair
    \/ \E quantity \in Sizes : FillMaker(quantity)
    \/ \E quantity \in Sizes, price \in Prices : FillTaker(quantity, price)
    \/ CancelMaker
    \/ CancelTaker
    \/ BeforePolicies
    \/ LatePolicies

SpecOrder == InitOrder /\ [][NextOrder]_vars

\* --------------------------------------------------------- the binaries
\* Two binaries feed an engine from a source of lines: exchange (one decoder
\* thread, a connector task, Runtime::run) and matching-engine (worker
\* threads that share the reader, the loop of main).  A queue carries the
\* number of the line whose request it holds.
Symbols == {"BTC/USDC", "ETH/USDC"}

\* The symbol the engine is started with.
TheSymbol == "BTC/USDC"

\* The orders that the lines carry.
PipelineOrders ==
    {o \in LimitOrders(Ids) :
        /\ o.time_in_force = "GTC"
        /\ ~o.post_only
        /\ o.quantity = 1
        /\ o.limit_price = SetMin(Prices)}

CreateRequest(symbol, order) ==
    [type_op |-> "CREATE", symbol |-> symbol, order |-> order,
     order_id |-> order.id]

DeleteRequest(order_id) ==
    [type_op |-> "DELETE", symbol |-> "", order |-> NoOrderYet,
     order_id |-> order_id]

Requests ==
    {CreateRequest(TheSymbol, o) : o \in PipelineOrders}
    \cup {CreateRequest(symbol, o) :
              symbol \in Symbols \ {TheSymbol},
              o \in {x \in PipelineOrders : x.id = 1 /\ x.side = "Ask"}}
    \cup {DeleteRequest(order_id) : order_id \in Ids}

\* A line of the source: a well-formed record of a request, or one of the
\* malformed shapes.
Lines ==
    {[shape |-> "record", request |-> r] : r \in Requests}
    \cup {[shape |-> shape, request |-> DeleteRequest(0)] :
              shape \in {"invalid", "truncated", "empty"}}

Inputs == UNION {[1..n -> Lines] : n \in 0..MaxLines}

\* serde_json::from_slice / from_str of a line: the request, or an error.
\* The error of a line that ends before its value is complete (a truncated
\* record, an empty line) is an end-of-file error.
serde_json_from_slice(line) ==
    [ok |-> line.shape = "record",
     is_eof |-> line.shape \in {"truncated", "empty"},
     request |-> line.request]

\* The lines that carry a request, by number.
WellFormed(lines) ==
    {i \in 1..Len(lines) : lines[i].shape = "record"}

\* What a process call did: the book it left, its error, a panic inside.
Processed(b, error, panic, order, ts, op) ==
    [book |-> b, error |-> error, panic |-> panic, order |-> order,
     trades |-> ts, op |-> op]

\* process after orderbook.matching(order), whose result is matched.
process_matched(request, matched) ==
    Processed(matched.book, <<>>, matched.panic, matched.order, matched.trades,
              Op("matching", request.order.side, request.order.id,
                 <<request.order>>))

\* process after orderbook.remove(&order_id), whose result is removed.
process_removed(request, removed) ==
    Processed(removed.book, <<>>, removed.panic, NoOrderYet, <<>>,
              Op("remove", "Ask", request.order_id, removed.order))

\* Runtime::process(request) on the book b with the pair of the runtime.
Runtime_process(b, pair, request) ==
    IF request.type_op = "CREATE" /\ request.symbol # pair
    THEN Processed(b, <<[expected |-> pair, found |-> request.symbol]>>,
                   "none", request.order, <<>>,
                   Op("mismatch", request.order.side, request.order.id,
                      <<request.order>>))
    ELSE IF request.type_op = "CREATE"
    THEN process_matched(request, matching(b, request.order))
    ELSE process_removed(request, Orderbook_remove(b, request.order_id))

\* Engine::process(incoming_order) on the book b with the symbol of the engine.
Engine_process(b, symbol, request) ==
    IF request.type_op = "CREATE" /\ request.symbol # symbol
    THEN Processed(b, <<[expected |-> symbol, found |-> request.symbol]>>,
                   "none", request.order, <<>>,
                   Op("mismatch", request.order.side, request.order.id,
                      <<request.order>>))
    ELSE IF request.type_op = "CREATE"
    THEN process_matched(request, matching(b, request.order))
    ELSE process_removed(request, Orderbook_remove(b, request.order_id))

\* The capacity of the queue of main, of the queue of Input::from and of the
\* queue of Runtime::run.
main_capacity == MaxQueue

Input_capacity == MaxQueue

Runtime_capacity == MaxQueue

\* Sender::send on a bounded queue returns once the queue has room for the
\* message; until then the sender blocks.
bounded_send_mut(queue, capacity) == Len(queue) <= capacity

bounded_send(queue, capacity) == Len(queue) < capacity

\* The queue after a send: the message is behind every message sent before.
Sender_send_mut(queue, message) == <<message>> \o queue

Sender_send(queue, message) == Append(queue, message)

Reading == [state |-> "reading", held |-> 0]

Sending(line) == [state |-> "sending", held |-> line]

Stopped == [state |-> "stopped", held |-> 0]

InitPipeline ==
    /\ orders_by_id = Orderbook_new.orders_by_id
    /\ orders_by_side = Orderbook_new.orders_by_side
    /\ failure = "none"
    /\ incoming_order = NoOrderYet
    /\ book_before = Orderbook_new
    /\ trades = <<>>
    /\ last_op = NoOp
    /\ PairIdle
    /\ pipeline \in {"exchange", "matching-engine"}
    /\ input \in Inputs
    /\ reader = 0
    /\ workers \in {[w \in 1..n |-> Reading] :
                       n \in IF pipeline = "exchange" THEN {1} ELSE 1..MaxWorkers}
    /\ input_rx = <<>>
    /\ connector = IF pipeline = "exchange" THEN Reading ELSE Stopped
    /\ rx = <<>>
    /\ run = "running"
    /\ processed = 0
    /\ sent = <<>>
    /\ handled = <<>>
    /\ last_error = <<>>

\* The process lives while the engine loop runs: a panic of the main thread
\* or the return of main ends every thread.
Live(binary) == pipeline = binary /\ run = "running"

\* The book and its ghosts after a process call whose result is r.
Apply(r) ==
    /\ orders_by_id' = r.book.orders_by_id
    /\ orders_by_side' = r.book.orders_by_side
    /\ failure' = r.panic
    /\ incoming_order' = r.order
    /\ trades' = r.trades
    /\ last_op' = r.op
    /\ book_before' = TheBook
    /\ last_error' = r.error

\* matching-engine, worker: take the next line from the shared reader and
\* decode it.  At the end of the source the buffer is empty, which decodes to
\* an end-of-file error.
WorkerRead(w) ==
    /\ Live("matching-engine")
    /\ w \in DOMAIN workers
    /\ workers[w].state = "reading"
    /\ IF reader = Len(input)
       THEN /\ workers' = [workers EXCEPT ![w] = Stopped]
            /\ UNCHANGED reader
       ELSE /\ reader' = reader + 1
            /\ LET order == serde_json_from_slice(input[reader + 1])
               IN  workers' = [workers EXCEPT ![w] =
                       IF order.ok THEN Sending(reader + 1)
                       ELSE IF order.is_eof THEN Stopped
                       ELSE Reading]
    /\ UNCHANGED <<pipeline, input, input_rx, connector, rx, run, processed,
                   sent, handled, last_error>>
    /\ UNCHANGED book_vars
    /\ UNCHANGED pair_vars

\* matching-engine, worker: tx.send(order), then the buffer is cleared.
WorkerSend(w) ==
    /\ Live("matching-engine")
    /\ w \in DOMAIN workers
    /\ workers[w].state = "sending"
    /\ bounded_send(rx, main_capacity)
    /\ rx' = Sender_send(rx, workers[w].held)
    /\ sent' = Append(sent, workers[w].held)
    /\ workers' = [workers EXCEPT ![w] = Reading]
    /\ UNCHANGED <<pipeline, input, reader, input_rx, connector, run,
                   processed, handled, last_error>>
    /\ UNCHANGED book_vars
    /\ UNCHANGED pair_vars

\* matching-engine, main: one round of the loop over rx.recv().  An error of
\* process is printed and the loop goes on; the loop ends when the queue is
\* empty and every sender is gone.
main ==
    /\ Live("matching-engine")
    /\ IF rx # <<>>
       THEN /\ \E r \in {Engine_process(TheBook, TheSymbol, input[Head(rx)].request)} :
                   /\ Apply(r)
                   /\ run' = IF r.panic # "none" THEN "panicked" ELSE "running"
            /\ rx' = Tail(rx)
            /\ handled' = Append(handled, Head(rx))
            /\ processed' = processed + 1
       ELSE /\ \A w \in DOMAIN workers : workers[w].state = "stopped"
            /\ run' = "ended"
            /\ UNCHANGED <<rx, handled, processed, last_error>>
            /\ UNCHANGED book_vars
    /\ UNCHANGED <<pipeline, input, reader, workers, input_rx, connector, sent>>
    /\ UNCHANGED pair_vars

\* exchange, the thread of Input::from: the next line of lines(), decoded; a
\* line that does not decode is filtered out.
InputRead ==
    /\ Live("exchange")
    /\ workers[1].state = "reading"
    /\ IF reader = Len(input)
       THEN /\ workers' = [workers EXCEPT ![1] = Stopped]
            /\ UNCHANGED reader
       ELSE /\ reader' = reader + 1
            /\ workers' = [workers EXCEPT ![1] =
                   IF serde_json_from_slice(input[reader + 1]).ok
                   THEN Sending(reader + 1) ELSE Reading]
    /\ UNCHANGED <<pipeline, input, input_rx, connector, rx, run, processed,
                   sent, handled, last_error>>
    /\ UNCHANGED book_vars
    /\ UNCHANGED pair_vars

\* exchange, the thread of Input::from: tx.send(order).
InputSend ==
    /\ Live("exchange")
    /\ workers[1].state = "sending"
    /\ bounded_send(input_rx, Input_capacity)
    /\ input_rx' = Sender_send(input_rx, workers[1].held)
    /\ sent' = Append(sent, workers[1].held)
    /\ workers' = [workers EXCEPT ![1] = Reading]
    /\ UNCHANGED <<pipeline, input, reader, connector, rx, run, processed,
                   handled, last_error>>
    /\ UNCHANGED book_vars
    /\ UNCHANGED pair_vars

\* exchange, the connector task of Runtime::run: connector.recv(); the task
\* ends when its connector is closed.
Connector_recv ==
    /\ Live("exchange")
    /\ connector.state = "reading"
    /\ IF input_rx # <<>>
       THEN /\ connector' = Sending(Head(input_rx))
            /\ input_rx' = Tail(input_rx)
       ELSE /\ workers[1].state = "stopped"
            /\ connector' = Stopped
            /\ UNCHANGED input_rx
    /\ UNCHANGED <<pipeline, input, reader, workers, rx, run, processed, sent,
                   handled, last_error>>
    /\ UNCHANGED book_vars
    /\ UNCHANGED pair_vars

\* exchange, the connector task of Runtime::run: tx.send_async(request).
Connector_send ==
    /\ Live("exchange")
    /\ connector.state = "sending"
    /\ bounded_send(rx, Runtime_capacity)
    /\ rx' = Sender_send(rx, connector.held)
    /\ connector' = Reading
    /\ UNCHANGED <<pipeline, input, reader, workers, input_rx, run, processed,
                   sent, handled, last_error>>
    /\ UNCHANGED book_vars
    /\ UNCHANGED pair_vars

\* exchange, Runtime::run: one round of the loop over rx.recv_async().  An
\* error of process is returned with `?`; the loop ends when the queue is
\* empty and the connector task is gone.
Runtime_run ==
    /\ Live("exchange")
    /\ IF rx # <<>>
       THEN /\ \E r \in {Runtime_process(TheBook, TheSymbol, input[Head(rx)].request)} :
                   /\ Apply(r)
                   /\ run' = IF r.panic # "none" THEN "panicked"
                             ELSE IF r.error # <<>> THEN "failed"
                             ELSE "running"
                   /\ processed' = IF r.error # <<>> \/ r.panic # "none"
                                   THEN processed ELSE processed + 1
            /\ rx' = Tail(rx)
            /\ handled' = Append(handled, Head(rx))
       ELSE /\ connector.state = "stopped"
            /\ run' = "ended"
            /\ UNCHANGED <<rx, handled, processed, last_error>>
            /\ UNCHANGED book_vars
    /\ UNCHANGED <<pipeline, input, reader, workers, input_rx, connector, sent>>
    /\ UNCHANGED pair_vars

NextPipeline ==
    \/ \E w \in 1..MaxWorkers : WorkerRead(w)
    \/ \E w \in 1..MaxWorkers : WorkerSend(w)
    \/ main
    \/ InputRead
    \/ InputSend
    \/ Connector_recv
    \/ Connector_send
    \/ Runtime_run

SpecPipeline == InitPipeline /\ [][NextPipeline]_vars

\* The engine loop can take a step: a request waits in its queue, or the
\* queue is empty and every sender is gone.
engine_ready ==
    /\ run = "running"
    /\ \/ rx # <<>>
       \/ /\ connector.state = "stopped"
          /\ \A w \in DOMAIN workers : workers[w].state = "stopped"

\* A step of the engine loop: it takes a request, or it ends.
engine_step == handled' # handled \/ run' # run

\* The threads and the tasks are scheduled by the operating system and by the
\* executor: a step of one of them that stays possible is eventually taken.
\* For the engine loop this is weak fairness of main and of Runtime_run, with
\* engine_ready for the steps being enabled.
SpecPipelineFair ==
    /\ SpecPipeline
    /\ []<>(~engine_ready) \/ []<><<engine_step>>_vars
    /\ \A w \in 1..MaxWorkers : WF_vars(WorkerRead(w)) /\ WF_vars(WorkerSend(w))
    /\ WF_vars(InputRead)
    /\ WF_vars(InputSend)
    /\ WF_vars(Connector_recv)
    /\ WF_vars(Connector_send)

\* ------------------------------------------------------ book properties
Count(fifo, id) == Cardinality({i \in 1..Len(fifo) : fifo[i] = id})

\* Every (side, price, position) that holds an id.
Slots(b) ==
    {<<side, price, i>> : side \in OrderSide, price \in Prices, i \in 1..MaxResting + 1}
    \cap
    UNION {UNION {{<<side, price, i>> : i \in 1..Len(b.orders_by_side[side][price])} :
                      price \in DOMAIN b.orders_by_side[side]} : side \in OrderSide}

Occurrences(b, id) ==
    Cardinality({slot \in Slots(b) :
                    b.orders_by_side[slot[1]][slot[2]][slot[3]] = id})

\* Both indices agree on what rests.
IndexParityOf(b) ==
    /\ \A id \in DOMAIN b.orders_by_id :
          LET order == b.orders_by_id[id]
          IN  /\ order.id = id
              /\ order.unit_price \in DOMAIN b.orders_by_side[order.side]
              /\ Count(b.orders_by_side[order.side][order.unit_price], id) = 1
              /\ Occurrences(b, id) = 1
    /\ \A slot \in Slots(b) :
          LET id == b.orders_by_side[slot[1]][slot[2]][slot[3]]
          IN  /\ id \in DOMAIN b.orders_by_id
              /\ b.orders_by_id[id].side = slot[1]
              /\ b.orders_by_id[id].unit_price = slot[2]

\* C1: after any sequence of Create and Delete requests, Creates that
\* reuse a resting id included, every resting order has exactly one
\* OrdersById entry and its id occurs exactly once in the FIFO of its side
\* and price, and every id in a FIFO resolves to an order of that side and
\* price.
C1_IndexParity == failure = "none" => IndexParityOf(TheBook)

\* C2: every price key of either side maps to a non-empty FIFO, in every
\* state reached through insert, remove, pop, peek_mut release and matching;
\* a remove or a pop that takes the last id of a level deletes the key.
C2_NoDanglingLevels ==
    /\ \A side \in OrderSide : \A price \in DOMAIN orders_by_side[side] :
          orders_by_side[side][price] # <<>>
    /\ (last_op.name \in {"remove", "pop"} /\ last_op.found # <<>>) =>
          LET side == IF last_op.name = "pop" THEN last_op.side
                      ELSE last_op.found[1].side
              price == IF last_op.name = "pop"
                       THEN BestKey(book_before.orders_by_side, side)
                       ELSE last_op.found[1].unit_price
          IN  Len(book_before.orders_by_side[side][price]) = 1
                  => price \notin DOMAIN orders_by_side[side]

\* C2 witness: a remove has taken the only id of a level while another level
\* of the same side stays, and a matching call has put orders into the book.
C2_Witness ==
    /\ last_op.name = "remove"
    /\ last_op.found # <<>>
    /\ Len(book_before.orders_by_side[last_op.found[1].side]
                                     [last_op.found[1].unit_price]) = 1
    /\ last_op.found[1].unit_price \notin DOMAIN orders_by_side[last_op.found[1].side]
    /\ DOMAIN orders_by_side[last_op.found[1].side] # {}
    /\ failure = "none"

\* C3: after every completed matching call and after every remove, one side
\* of the book is empty or the best ask price is above the best bid price.
C3_NonOverlap ==
    (failure = "none" /\ last_op.name \in {"matching", "remove"}) =>
        \/ DOMAIN orders_by_side["Ask"] = {}
        \/ DOMAIN orders_by_side["Bid"] = {}
        \/ BestKey(orders_by_side, "Ask") > BestKey(orders_by_side, "Bid")

\* The orders of a side as orders_by_id holds them.
RestingOn(b, side) ==
    {b.orders_by_id[id] : id \in {x \in DOMAIN b.orders_by_id :
                                     b.orders_by_id[x].side = side}}

Before(side, p, q) == IF side = "Ask" THEN p <= q ELSE p >= q

\* iter(side) lists every resting order of the side once, best price first,
\* and peek(side) is its first element.
PricePriorityOf(b, side) ==
    LET listed == Orderbook_iter(b, side)
        top == Orderbook_peek(b, side)
    IN  /\ listed.panic = "none"
        /\ top.panic = "none"
        /\ {listed.orders[i] : i \in 1..Len(listed.orders)} = RestingOn(b, side)
        /\ Len(listed.orders) = Cardinality(RestingOn(b, side))
        /\ \A i, j \in 1..Len(listed.orders) :
              i < j => Before(side, listed.orders[i].unit_price,
                              listed.orders[j].unit_price)
        /\ top.order = IF listed.orders = <<>> THEN <<>> ELSE <<Head(listed.orders)>>

\* Within one price the orders that stay keep their relative order, and an
\* order that comes stands behind the ones that stayed.
TimePriorityKept(b, c, side) ==
    LET old == OrdersBySide_iter(b.orders_by_side, side)
        new == OrdersBySide_iter(c.orders_by_side, side)
        Was(id) == \E k \in 1..Len(old) : old[k] = id
    IN  \A i, j \in 1..Len(new) :
          (i < j /\ new[i] \in DOMAIN c.orders_by_id /\ new[j] \in DOMAIN c.orders_by_id
             /\ c.orders_by_id[new[i]].unit_price = c.orders_by_id[new[j]].unit_price)
          => /\ (Was(new[i]) /\ Was(new[j]))
                    => Position(old, new[i]) < Position(old, new[j])
             /\ Was(new[j]) => Was(new[i])

\* C4: peek(side) and the head of iter(side) are the earliest-inserted order
\* at the best price, and iter(side) lists all resting orders of the side by
\* price (ascending asks, descending bids), then by insertion order.
C4_PriceTimePriority ==
    [][failure' = "none" =>
          \A side \in OrderSide :
              /\ PricePriorityOf(TheBook', side)
              /\ TimePriorityKept(TheBook, TheBook', side)]_vars

\* C5: matching never panics, whatever the incoming order and the book.
C5_MatchingNeverFails == last_op.name = "matching" => failure = "none"

\* The fill figures and the status of a limit order agree.
FillConservationOf(order) ==
    /\ 0 <= order.filled
    /\ order.filled <= order.quantity
    /\ (order.status = "Completed") <=> (order.filled = order.quantity)
    /\ (order.status = "Partial") =>
          (0 < order.filled /\ order.filled < order.quantity)

\* C6: every LimitOrder has 0 <= filled <= quantity, is Completed exactly
\* when filled = quantity, and Partial only when 0 < filled < quantity.
C6_FillConservation ==
    \A id \in DOMAIN orders_by_id : FillConservationOf(orders_by_id[id])

\* ----------------------------------------------------- order properties
\* The transitions of the status of an order.
Edge(from, to) ==
    \/ from = to
    \/ <<from, to>> \in {<<"Open", "Partial">>, <<"Open", "Completed">>,
                         <<"Partial", "Completed">>, <<"Open", "Cancelled">>,
                         <<"Partial", "Closed">>}

CancelTarget(status) ==
    IF status = "Open" THEN "Cancelled"
    ELSE IF status = "Partial" THEN "Closed"
    ELSE status

\* C8: cancel() moves Open to Cancelled and Partial to Closed, changes
\* nothing of a Cancelled, Closed or Completed order, never changes filled or
\* quantity, and a second cancel changes nothing.
C8_Cancel ==
    /\ outcome.op = "cancel_taker" =>
          /\ taker = [outcome.taker_before EXCEPT
                         !.status = CancelTarget(outcome.taker_before.status)]
          /\ Order_cancel(taker) = taker
          /\ maker = outcome.maker_before
    /\ outcome.op = "cancel_maker" =>
          /\ maker = [outcome.maker_before EXCEPT
                         !.status = CancelTarget(outcome.maker_before.status)]
          /\ LimitOrder_cancel(maker) = maker
          /\ taker = outcome.taker_before

\* C8 witness: a cancel has closed a taker that was filled in part.
C8_Witness ==
    /\ outcome.op = "cancel_taker"
    /\ outcome.taker_before.status = "Partial"
    /\ outcome.taker_before.filled > 0
    /\ taker.status = "Closed"
    /\ taker.filled = outcome.taker_before.filled

\* C9: every trade that maker.trade(taker) produces has the maker's
\* unit_price as its price, for either taker side, limit and market takers.
C9_TakerAdvantage ==
    (outcome.op = "trade" /\ outcome.result = "Ok") =>
        /\ Len(outcome.trade) = 1
        /\ outcome.trade[1].price = outcome.maker_before.unit_price

\* C9 witness: a limit taker has traded with a maker whose price is better
\* than the taker's limit price.
C9_Witness ==
    /\ outcome.op = "trade"
    /\ outcome.result = "Ok"
    /\ outcome.taker_before.type_ = "Limit"
    /\ outcome.taker_before.side = "Bid"
    /\ outcome.taker_before.limit_price > outcome.maker_before.unit_price
    /\ outcome.trade[1].price = outcome.maker_before.unit_price

StatusAfterFill(filled, quantity) ==
    IF filled = quantity THEN "Completed" ELSE "Partial"

\* C10: a successful trade exchanges q = min(maker remaining, taker
\* remaining in quantity at the maker's price p: funds / p for a
\* funds-priced market taker, its own remaining otherwise), fills the maker
\* by q and the taker by q at p, and emits quantity q, price p, notional q*p.
C10_TradeQuantity ==
    (outcome.op = "trade" /\ outcome.result = "Ok") =>
        LET m == outcome.maker_before
            t == outcome.taker_before
            funds == t.type_ = "Market" /\ t.priced_by = "Funds"
            p == m.unit_price
            q == Min(m.quantity - m.filled,
                     IF funds THEN Div(t.quantity - t.filled, p)
                     ELSE t.quantity - t.filled)
            taker_filled == t.filled + (IF funds THEN q * p ELSE q)
        IN  /\ outcome.trade = <<[taker |-> t.id, maker |-> m.id, quantity |-> q,
                                  price |-> p, notional |-> q * p]>>
            /\ maker = [m EXCEPT !.filled = m.filled + q,
                                 !.status = StatusAfterFill(m.filled + q, m.quantity)]
            /\ taker = [t EXCEPT !.filled = taker_filled,
                                 !.status = StatusAfterFill(taker_filled, t.quantity)]

\* C10 witness: a funds-priced market taker has traded at a price above one,
\* and the maker had more than the funds could buy.
C10_Witness ==
    /\ outcome.op = "trade"
    /\ outcome.result = "Ok"
    /\ outcome.taker_before.type_ = "Market"
    /\ outcome.taker_before.priced_by = "Funds"
    /\ outcome.maker_before.unit_price > 1
    /\ outcome.trade[1].quantity
           < outcome.maker_before.quantity - outcome.maker_before.filled
    /\ outcome.trade[1].notional = outcome.taker_before.quantity

\* What matches answers for a taker with a limit price: the first of the
\* three failures that applies, in the order Closed, SameSide, Incompatible.
LimitVerdict(m, t) ==
    IF m.status \in {"Cancelled", "Closed", "Completed"}
           \/ t.status \in {"Cancelled", "Closed", "Completed"}
    THEN "Closed"
    ELSE IF m.side = t.side THEN "SameSide"
    ELSE IF (IF t.side = "Bid" THEN t.limit_price < m.unit_price
             ELSE m.unit_price < t.limit_price)
    THEN "Incompatible"
    ELSE "Ok"

\* C11: for a taker with a limit price, maker.matches(taker) succeeds iff
\* neither order is closed, the sides are opposite and bid price >= ask
\* price (equal prices cross); it fails with Closed if either is closed,
\* with SameSide if the sides are equal, with Incompatible if the prices do
\* not cross; trade() fails and changes neither order when matches fails.
C11_LimitMatches ==
    (outcome.op = "trade" /\ outcome.taker_before.type_ = "Limit") =>
        LET verdict == LimitVerdict(outcome.maker_before, outcome.taker_before)
        IN  /\ LimitOrder_matches(outcome.maker_before, outcome.taker_before)
                   = verdict
            /\ (verdict = "Ok") <=> (outcome.result # "Err")
            /\ (verdict # "Ok") =>
                   /\ outcome.error = verdict
                   /\ outcome.trade = <<>>
                   /\ maker = outcome.maker_before
                   /\ taker = outcome.taker_before

\* C11 witness: a limit bid has traded with an ask at the same price.
C11_Witness ==
    /\ outcome.op = "trade"
    /\ outcome.result = "Ok"
    /\ outcome.taker_before.type_ = "Limit"
    /\ outcome.taker_before.side = "Bid"
    /\ outcome.maker_before.side = "Ask"
    /\ outcome.taker_before.limit_price = outcome.maker_before.unit_price
    /\ outcome.trade # <<>>

\* C12: for a market taker, maker.matches(taker) succeeds exactly when the
\* maker is on the opposite side and neither order is closed; a market taker
\* on the side of the maker does not match.
C12_MarketMatches ==
    (outcome.op = "trade" /\ outcome.taker_before.type_ = "Market") =>
        LET m == outcome.maker_before
            t == outcome.taker_before
            closed == m.status \in {"Cancelled", "Closed", "Completed"}
                          \/ t.status \in {"Cancelled", "Closed", "Completed"}
        IN  (outcome.result # "Err") <=> (m.side # t.side /\ ~closed)

\* ---------------------------------------------------- policy properties
\* The order of the last matching call as it came in.
Incoming == last_op.found[1]

\* The call has put no id of the incoming order into the FIFOs.
NotBooked == Occurrences(TheBook, Incoming.id) <= Occurrences(book_before, Incoming.id)

\* C13: if the FillOrKill policy does not cancel a fill-or-kill taker, then
\* when the matching call ends the taker is Completed with filled equal to
\* its original size, and it is not in the book.
C13_FillOrKillSuccess ==
    (/\ last_op.name = "matching"
     /\ Order_is_fill_or_kill(Incoming)
     /\ FillOrKill_enforce(Incoming, book_before).order.status # "Cancelled") =>
        /\ incoming_order.status = "Completed"
        /\ incoming_order.filled = Incoming.quantity
        /\ NotBooked

\* The price of a resting order is one the taker accepts.
Crosses(t, m) ==
    \/ t.type_ = "Market"
    \/ t.side = "Bid" /\ m.unit_price <= t.limit_price
    \/ t.side = "Ask" /\ m.unit_price >= t.limit_price

\* What a resting order offers a taker: funds for a funds-priced taker,
\* quantity otherwise.
Offer(t, m) ==
    IF t.type_ = "Market" /\ t.priced_by = "Funds"
    THEN (m.quantity - m.filled) * m.unit_price
    ELSE m.quantity - m.filled

RECURSIVE OfferSum(_, _)
OfferSum(t, makers) ==
    IF makers = {} THEN 0
    ELSE LET m == CHOOSE x \in makers : TRUE
         IN  Offer(t, m) + OfferSum(t, makers \ {m})

\* The crossing liquidity of the opposite side for a taker.
CrossingLiquidity(b, t) ==
    OfferSum(t, {m \in RestingOn(b, opposite(t.side)) : Crosses(t, m)})

\* C14: when the crossing liquidity of the opposite side is smaller than the
\* size of a fill-or-kill taker, the taker is Cancelled, no trade is
\* produced, and the book is exactly as before the call.
C14_FillOrKillRejection ==
    (/\ last_op.name = "matching"
     /\ Order_is_fill_or_kill(Incoming)
     /\ CrossingLiquidity(book_before, Incoming) < Incoming.quantity) =>
        /\ failure = "none"
        /\ incoming_order = [Incoming EXCEPT !.status = "Cancelled"]
        /\ trades = <<>>
        /\ TheBook = book_before

\* The book b with the limit order o put at the tail of its price level.
Rested(b, o) ==
    LET levels == b.orders_by_side[o.side]
    IN  Book([id \in DOMAIN b.orders_by_id \cup {o.id} |->
                 IF id = o.id THEN o ELSE b.orders_by_id[id]],
             [side \in OrderSide |->
                 IF side # o.side THEN b.orders_by_side[side]
                 ELSE [price \in DOMAIN levels \cup {o.unit_price} |->
                          IF price # o.unit_price THEN levels[price]
                          ELSE IF price \in DOMAIN levels
                          THEN levels[price] \o <<o.id>>
                          ELSE <<o.id>>]])

\* C15: a post-only GTC limit order is Cancelled, with no trade and the book
\* unchanged, if the best opposite maker crosses it; otherwise it is
\* inserted into the book unchanged (Open, filled 0) and the call produces no
\* trade.  A post-only order never takes liquidity.
C15_PostOnly ==
    (last_op.name = "matching" /\ Order_is_post_only(Incoming)) =>
        /\ failure = "none"
        /\ trades = <<>>
        /\ IF \E m \in RestingOn(book_before, opposite(Incoming.side)) :
                  Crosses(Incoming, m)
           THEN /\ incoming_order = [Incoming EXCEPT !.status = "Cancelled"]
                /\ TheBook = book_before
           ELSE /\ incoming_order = Incoming
                /\ TheBook =
                       Rested(book_before,
                              [id |-> Incoming.id, side |-> Incoming.side,
                               unit_price |-> Incoming.limit_price,
                               post_only |-> TRUE,
                               quantity |-> Incoming.quantity, filled |-> 0,
                               status |-> "Open"])

\* C16: when a matching call ends, every IOC limit taker and every market
\* taker is in a closed state (Completed, Closed or Cancelled) and no part of
\* it is in the book, whatever amount was filled.
C16_ImmediateOrCancel ==
    (/\ last_op.name = "matching"
     /\ (Incoming.type_ = "Market"
            \/ (Incoming.type_ = "Limit" /\ Incoming.time_in_force = "IOC"))) =>
        /\ incoming_order.status \in {"Completed", "Closed", "Cancelled"}
        /\ NotBooked

\* ------------------------------------------------------ remove and peek_mut
\* A level of a book, empty if the price is not a key.
LevelOf(b, side, price) ==
    IF price \in DOMAIN b.orders_by_side[side]
    THEN b.orders_by_side[side][price] ELSE <<>>

\* The ids of a FIFO other than id, in their order.
Without(fifo, id) == SelectSeq(fifo, LAMBDA x : x # id)

\* C17: remove(id) returns the order and deletes it from both OrdersById and
\* its FIFO when the id is resting, and returns None leaving the whole book
\* unchanged when it is not; after a Delete request no later taker trades
\* against that order.
C17_Remove ==
    /\ last_op.name = "remove" =>
          /\ failure = "none"
          /\ IF last_op.id \in DOMAIN book_before.orders_by_id
             THEN LET order == book_before.orders_by_id[last_op.id]
                  IN  /\ last_op.found = <<order>>
                      /\ orders_by_id = MapRemove(book_before.orders_by_id, last_op.id)
                      /\ Occurrences(TheBook, last_op.id) = 0
                      /\ \A side \in OrderSide, price \in Prices :
                            LevelOf(TheBook, side, price) =
                                IF side = order.side /\ price = order.unit_price
                                THEN Without(LevelOf(book_before, side, price),
                                             last_op.id)
                                ELSE LevelOf(book_before, side, price)
             ELSE /\ last_op.found = <<>>
                  /\ TheBook = book_before
    /\ last_op.name = "matching" =>
          \A i \in 1..Len(trades) :
              trades[i].maker \in DOMAIN book_before.orders_by_id

\* The order after the best one of a side, <<>> if there is none.
NextInPriority(b, side) ==
    LET listed == Orderbook_iter(b, side).orders
    IN  IF Len(listed) < 2 THEN <<>> ELSE <<listed[2]>>

Drained ==
    /\ rx = <<>>
    /\ input_rx = <<>>
    /\ connector.state # "sending"
    /\ \A w \in DOMAIN workers : workers[w].state # "sending"

\* C19: a Create whose symbol differs from the symbol of the engine returns
\* Mismatch{expected, found}, leaves the book unchanged, and the engine goes
\* on to process every later request in the queue.
C19_MismatchRejected ==
    /\ last_op.name = "mismatch" =>
          /\ last_error = <<[expected |-> TheSymbol,
                             found |-> input[handled[Len(handled)]].request.symbol]>>
          /\ TheBook = book_before
    /\ run = "failed" => Drained

\* C20: a malformed line (invalid JSON, a truncated record, an empty line)
\* is dropped and does not stop decoding: every well-formed line of the
\* source is decoded and sent, and nothing else is.
C20_MalformedDropped ==
    /\ \A i \in 1..Len(sent) : sent[i] \in WellFormed(input)
    /\ (\A w \in DOMAIN workers : workers[w].state = "stopped")
          => {sent[i] : i \in 1..Len(sent)} = WellFormed(input)

\* Every sender of the queue to the engine is gone.
SendersDropped ==
    /\ connector.state = "stopped"
    /\ \A w \in DOMAIN workers : workers[w].state = "stopped"

\* The request of line i makes process return an error.
Mismatched(i) ==
    /\ input[i].request.type_op = "CREATE"
    /\ input[i].request.symbol # TheSymbol

NoRequestFailed == \A i \in 1..Len(handled) : ~Mismatched(handled[i])

\* Every request that was sent has been taken by the engine exactly once, and
\* nothing else has.
ProcessedExactlyOnce ==
    /\ Len(handled) = Len(sent)
    /\ \A i \in 1..Len(sent) : Count(handled, sent[i]) = 1

C22_ProducerFifo == handled = SubSeq(sent, 1, Len(handled))

\* Two workers have sent against the order of the source, and the engine has
\* taken both requests.
C22_Witness ==
    /\ pipeline = "matching-engine"
    /\ Len(workers) = 2
    /\ Len(handled) >= 2
    /\ handled[1] > handled[2]

\* The capacity of the queue to the engine.
EngineCapacity ==
    IF pipeline = "matching-engine" THEN main_capacity ELSE Runtime_capacity

\* Worker w holds a request for the queue to the engine.
WorkerHolds(w) ==
    /\ pipeline = "matching-engine"
    /\ w \in DOMAIN workers
    /\ workers[w].state = "sending"

\* The decoder of exchange holds a request for the queue of Input::from.
DecoderHolds == pipeline = "exchange" /\ workers[1].state = "sending"

WithinCapacity ==
    /\ Len(rx) <= EngineCapacity
    /\ Len(input_rx) <= Input_capacity

\* While the engine runs, a sender that holds a request can send it exactly
\* if its queue is not full.
BlockedWhileFull ==
    run = "running" =>
        /\ \A w \in 1..MaxWorkers :
               WorkerHolds(w) =>
                   ((ENABLED WorkerSend(w)) <=> Len(rx) < EngineCapacity)
        /\ DecoderHolds =>
               ((ENABLED InputSend) <=> Len(input_rx) < Input_capacity)
        /\ connector.state = "sending" =>
               ((ENABLED Connector_send) <=> Len(rx) < EngineCapacity)

\* A sender that holds a request keeps it, or puts it at the back of its
\* queue.
HeldNotDropped ==
    /\ \A w \in 1..MaxWorkers :
           WorkerHolds(w) =>
               \/ workers'[w] = workers[w]
               \/ rx' = Append(rx, workers[w].held)
    /\ DecoderHolds =>
           \/ workers'[1] = workers[1]
           \/ input_rx' = Append(input_rx, workers[1].held)
    /\ connector.state = "sending" =>
           \/ connector' = connector
           \/ rx' = Append(rx, connector.held)

\* C23: a queue never holds more requests than its capacity; a decoder whose
\* queue is full blocks and keeps its request, and it sends the request once
\* the queue has room again, unless the engine has ended.
C23_Backpressure ==
    /\ [](WithinCapacity /\ BlockedWhileFull)
    /\ [][HeldNotDropped]_vars
    /\ \A w \in 1..MaxWorkers :
           WorkerHolds(w) ~> (~WorkerHolds(w) \/ run # "running")
    /\ DecoderHolds ~> (~DecoderHolds \/ run # "running")
    /\ connector.state = "sending"
           ~> (connector.state # "sending" \/ run # "running")

\* A worker is blocked: it holds a request and the queue to the running engine
\* is full.
C23_Witness ==
    /\ run = "running"
    /\ Len(rx) = EngineCapacity
    /\ \E w \in 1..MaxWorkers : WorkerHolds(w)

\* ------------------------------------------------- order properties, II
\* What a fill by amount has to do to an order with the given remaining
\* amount: the error it returns and the order it leaves.
FillContract(before, after, error, quantity, amount, remaining) ==
    IF quantity = 0
    THEN error = "NoFill" /\ after = before
    ELSE IF amount > remaining
    THEN error = "Overfill" /\ after = before
    ELSE /\ error = "Ok"
         /\ after = [before EXCEPT
                !.filled = before.filled + amount,
                !.status = IF before.quantity - (before.filled + amount) = 0
                           THEN "Completed" ELSE "Partial"]

FundsPriced(o) == o.type_ = "Market" /\ o.priced_by = "Funds"

\* C24: a fill by quantity 0 is rejected with NoFill, a fill by more than
\* what remains (quantity * price against the remaining funds for a
\* funds-priced market order) with Overfill, and both leave the order as it
\* was; any other fill adds the amount to filled and sets the status to
\* Completed if nothing remains, to Partial otherwise.
C24_Fill ==
    [][/\ \A quantity \in Sizes :
              FillMaker(quantity) =>
                  FillContract(maker, maker', outcome'.error, quantity,
                               quantity, maker.quantity - maker.filled)
       /\ \A quantity \in Sizes, price \in Prices :
              FillTaker(quantity, price) =>
                  FillContract(taker, taker', outcome'.error, quantity,
                               IF FundsPriced(taker) THEN quantity * price
                               ELSE quantity,
                               taker.quantity - taker.filled)]_vars

\* A funds-priced market order was filled by a quantity below its funds whose
\* price makes the fill use up the funds.
C24_Witness ==
    /\ outcome.op = "fill_taker"
    /\ outcome.error = "Ok"
    /\ FundsPriced(outcome.taker_before)
    /\ outcome.taker_before.filled = 0
    /\ taker.filled = taker.quantity
    /\ taker.filled > MaxQty
    /\ taker.status = "Completed"

\* C25: the conversion of an order to a limit order succeeds exactly for a
\* limit order that is good till cancel, and then keeps id, side, limit
\* price, post_only, quantity, filled and status; every other order is
\* Incompatible; a limit order converted to an order and back is the same
\* limit order.
C25_Conversion ==
    /\ LimitOrder_try_from(taker) # <<>>
           <=> (taker.type_ = "Limit" /\ taker.time_in_force = "GTC")
    /\ LimitOrder_try_from(taker) # <<>> =>
           LET limit == LimitOrder_try_from(taker)[1]
           IN  /\ limit.id = taker.id
               /\ limit.side = taker.side
               /\ limit.unit_price = taker.limit_price
               /\ limit.post_only = taker.post_only
               /\ limit.quantity = taker.quantity
               /\ limit.filled = taker.filled
               /\ limit.status = taker.status
    /\ LimitOrder_try_from(Order_from(maker)) = <<maker>>

\* The order is a good-till-cancel limit order that a fill has left Partial,
\* beside a limit order that was closed after a fill.
C25_Witness ==
    /\ taker.type_ = "Limit"
    /\ taker.time_in_force = "GTC"
    /\ taker.post_only
    /\ taker.status = "Partial"
    /\ LimitOrder_try_from(taker) # <<>>
    /\ maker.status = "Closed"
    /\ maker.filled > 0

\* ------------------------------------------------- book properties, II
\* The first trade of a matching call of order on the book b would exchange
\* nothing: the order passes the before policies open, and it matches the
\* best opposite maker for quantity 0.
ZeroCrossing(b, order) ==
    LET policed == before_policies(order, b)
        top == Orderbook_peek(b, opposite(order.side))
    IN  /\ policed.panic = "none"
        /\ Order_is_open(policed.order)
        /\ top.order # <<>>
        /\ LimitOrder_matches(top.order[1], policed.order) = "Ok"
        /\ Trade_exchanged(top.order[1], policed.order,
                           Trade_price(top.order[1], policed.order)) = 0

\* C26: a matching call whose next trade would exchange quantity 0 ends
\* without a failure and without a trade, and leaves the opposite side of the
\* book as it was.
C26_ZeroCrossing ==
    (last_op.name = "matching" /\ ZeroCrossing(book_before, Incoming)) =>
        /\ failure = "none"
        /\ trades = <<>>
        /\ orders_by_side[opposite(Incoming.side)]
               = book_before.orders_by_side[opposite(Incoming.side)]

\* The order is a limit order that is good till cancel.
GoodTillCancelLimit(o) == o.type_ = "Limit" /\ o.time_in_force = "GTC"

LastTrade == trades[Len(trades)]

\* The maker of the last trade as it rested when the call began.
LastMaker == book_before.orders_by_id[LastTrade.maker]

\* The last trade of the call took less than its maker had left.
PartlyFilledMaker ==
    /\ last_op.name = "matching"
    /\ trades # <<>>
    /\ LastTrade.maker \in DOMAIN book_before.orders_by_id
    /\ LastTrade.quantity < LastMaker.quantity - LastMaker.filled

\* The part of a FIFO from the first occurrence of id on.
From(fifo, id) == SubSeq(fifo, Position(fifo, id), Len(fifo))

\* The maker of the last trade is at the front of its price level, Partial,
\* with its remaining amount reduced by the traded quantity and with the
\* orders behind it in their order.
PartialMakerRests ==
    /\ LastTrade.maker \in DOMAIN orders_by_id
    /\ orders_by_id[LastTrade.maker]
           = [LastMaker EXCEPT
                  !.filled = LastMaker.filled + LastTrade.quantity,
                  !.status = "Partial"]
    /\ LevelOf(TheBook, LastMaker.side, LastMaker.unit_price)
           = From(LevelOf(book_before, LastMaker.side, LastMaker.unit_price),
                  LastTrade.maker)
    /\ OrdersBySide_peek(orders_by_side, LastMaker.side) = <<LastTrade.maker>>

\* C28: a maker that a taker fills only in part stays at the front of its
\* price level, Partial, with its remaining amount reduced by the traded
\* quantity and with the orders behind it in their order; the taker is
\* Completed and is not booked.
C28_PartialMaker ==
    PartlyFilledMaker =>
        /\ PartialMakerRests
        /\ incoming_order.status = "Completed"
        /\ NotBooked

\* The quantity that the first n trades of ts took from the maker id.
RECURSIVE TradedWith(_, _, _)
TradedWith(ts, n, id) ==
    IF n = 0 THEN 0
    ELSE TradedWith(ts, n - 1, id)
             + (IF ts[n].maker = id THEN ts[n].quantity ELSE 0)

\* The resting orders of the book b that have priority over its order m: a
\* better price, or the same price and a place nearer the front of the FIFO.
Ahead(b, m) ==
    {x \in RestingOn(b, m.side) :
        \/ x.unit_price # m.unit_price /\ Before(m.side, x.unit_price, m.unit_price)
        \/ /\ x.unit_price = m.unit_price
           /\ Position(LevelOf(b, m.side, m.unit_price), x.id) > 0
           /\ Position(LevelOf(b, m.side, m.unit_price), x.id)
                  < Position(LevelOf(b, m.side, m.unit_price), m.id)}

\* C29: the trades of one matching call follow the price-time priority that
\* the opposite side had when the call began: the prices do not get better
\* from one trade to the next, and a maker is traded only when the trades
\* before have completely filled every maker that was ahead of it.
C29_TradeOrder ==
    last_op.name = "matching" =>
        /\ \A i, j \in 1..Len(trades) :
               i < j => Before(opposite(Incoming.side), trades[i].price,
                               trades[j].price)
        /\ \A i \in 1..Len(trades) :
               /\ trades[i].maker \in DOMAIN book_before.orders_by_id
               /\ \A x \in Ahead(book_before,
                                 book_before.orders_by_id[trades[i].maker]) :
                      TradedWith(trades, i - 1, x.id) = x.quantity - x.filled

\* ------------------------------------------------ policy properties, II
\* The before policies applied in the other order, [PostOnly, FillOrKill].
\* A policy takes the book by shared reference: it can change the order only.
PostOnlyFirst(order, b) ==
    LET post == PostOnly_enforce(order, b)
    IN  IF post.panic # "none" THEN post ELSE FillOrKill_enforce(post.order, b)

\* The two orders of the before policies leave the order in different states.
OrderOfPoliciesShows(order, b) == before_policies(order, b) # PostOnlyFirst(order, b)

RECURSIVE MatchingPrefix(_, _, _)
MatchingPrefix(b, ids, order) ==
    IF ids = <<>> THEN <<>>
    ELSE IF Head(ids) \notin DOMAIN b.orders_by_id THEN <<>>
    ELSE IF LimitOrder_matches(b.orders_by_id[Head(ids)], order) # "Ok" THEN <<>>
    ELSE <<Head(ids)>> \o MatchingPrefix(b, Tail(ids), order)

\* The total size the orders of the ids offer the taker, every id counted.
RECURSIVE AvailableSum(_, _, _)
AvailableSum(b, ids, order) ==
    IF ids = <<>> THEN 0
    ELSE Offer(order, b.orders_by_id[Head(ids)])
             + AvailableSum(b, Tail(ids), order)

\* The reference without short circuit: the whole matching prefix of the
\* opposite side offers at least the remaining size of the taker.
can_fill_reference(order, b) ==
    AvailableSum(b,
                 MatchingPrefix(b, OrdersBySide_iter(b.orders_by_side,
                                                     opposite(order.side)),
                                order),
                 order) >= Order_remaining(order).val

\* C31: for a fill-or-kill taker, FillOrKill::can_fill, which stops at the
\* first maker that covers the taker, gives the answer of the reference
\* without short circuit: true iff the matching prefix of the opposite side
\* offers at least the remaining size of the taker.
C31_CanFillReference ==
    (/\ last_op.name = "matching"
     /\ Order_is_fill_or_kill(Incoming)
     /\ FillOrKill_can_fill(Incoming, book_before).panic = "none") =>
        FillOrKill_can_fill(Incoming, book_before).can
            = can_fill_reference(Incoming, book_before)

\* ----------------------------------------------------- the open residual
\* C32: a taker that is still open after the late policies is a
\* good-till-cancel limit order, its conversion to a LimitOrder succeeds and
\* the converted order is put into the book; and whatever a request puts
\* into the book is the good-till-cancel limit order of a matching call.
C32_OpenResidual ==
    /\ (last_op.name = "matching" /\ failure = "none"
            /\ Order_is_open(incoming_order)) =>
          /\ GoodTillCancelLimit(incoming_order)
          /\ LimitOrder_try_from(incoming_order) # <<>>
          /\ ~NotBooked
          /\ incoming_order.id \in DOMAIN orders_by_id
          /\ orders_by_id[incoming_order.id]
                 = LimitOrder_try_from(incoming_order)[1]
    /\ last_op.name # "none" =>
          \A id \in Ids :
              Occurrences(TheBook, id) > Occurrences(book_before, id) =>
                  /\ last_op.name = "matching"
                  /\ id = Incoming.id
                  /\ GoodTillCancelLimit(Incoming)

\* A matching call on a book that is not empty has returned with its taker
\* open, and the taker rests.
C32_Witness ==
    /\ last_op.name = "matching"
    /\ failure = "none"
    /\ Order_is_open(incoming_order)
    /\ DOMAIN book_before.orders_by_id # {}
    /\ ~NotBooked

\* ------------------------------------------------- who completes in a trade
\* C33: after a successful trade between a maker and a quantity-priced
\* taker, the order with the smaller remaining amount is Completed with
\* nothing remaining and the other one is Partial and still open; both are
\* Completed when the remaining amounts were equal.
C33_OneCompletes ==
    (outcome.op = "trade" /\ outcome.result = "Ok"
        /\ ~FundsPriced(outcome.taker_before)) =>
        LET maker_left == LimitOrder_remaining(outcome.maker_before)
            taker_left == Order_remaining(outcome.taker_before).val
        IN  /\ maker_left <= taker_left =>
                   /\ maker.status = "Completed"
                   /\ LimitOrder_remaining(maker) = 0
            /\ taker_left <= maker_left =>
                   /\ taker.status = "Completed"
                   /\ Order_remaining(taker).val = 0
            /\ maker_left < taker_left =>
                   /\ taker.status = "Partial"
                   /\ Order_is_open(taker)
                   /\ Order_remaining(taker).val = taker_left - maker_left
            /\ taker_left < maker_left =>
                   /\ maker.status = "Partial"
                   /\ ~LimitOrder_is_closed(maker)
                   /\ LimitOrder_remaining(maker) = maker_left - taker_left

\* A partly filled maker has traded with a quantity-priced taker that wanted
\* more than the maker had left.
C33_Witness ==
    /\ outcome.op = "trade"
    /\ outcome.result = "Ok"
    /\ ~FundsPriced(outcome.taker_before)
    /\ outcome.maker_before.status = "Partial"
    /\ LimitOrder_remaining(outcome.maker_before)
           < Order_remaining(outcome.taker_before).val
    /\ maker.status = "Completed"
    /\ taker.status = "Partial"

\* ------------------------------------------------------ resting orders live
\* C34: between two requests every order in the book has status Open or
\* Partial and a remaining quantity above 0.
C34_RestingLive ==
    Idle =>
        \A id \in DOMAIN orders_by_id :
            /\ orders_by_id[id].status \in {"Open", "Partial"}
            /\ LimitOrder_remaining(orders_by_id[id]) > 0

\* ------------------------------------------- source order with many workers
\* C35: with two or more workers on one source, a DELETE that follows the
\* CREATE of the same order id in the input is not processed before that
\* CREATE, and two CREATEs of one side at one price are processed, and so
\* rest, in the order in which they appear in the input.
C35_SourceOrder ==
    (pipeline = "matching-engine" /\ Cardinality(DOMAIN workers) >= 2) =>
        \A i, j \in 1..Len(handled) :
            (i < j /\ handled[j] < handled[i]) =>
                LET earlier == input[handled[j]].request
                    later == input[handled[i]].request
                IN  /\ ~(/\ earlier.type_op = "CREATE"
                         /\ later.type_op = "DELETE"
                         /\ earlier.order_id = later.order_id)
                    /\ ~(/\ earlier.type_op = "CREATE"
                         /\ later.type_op = "CREATE"
                         /\ earlier.order.side = later.order.side
                         /\ earlier.order.limit_price = later.order.limit_price)

\* ------------------------------------------- the rounds of the matching loop
\* What one round of the while loop leaves: whether it left the loop (a
\* break or a panic), the book, the taker, and the maker it traded with as
\* it was before and after the trade.
Round(exit, b, order, before, after) ==
    [exit |-> exit, book |-> b, taker |-> order, maker_before |-> before,
     maker |-> after]

\* The round after exchange.remove(top_order_id), whose result is removed.
round_removed(m, t, removed) ==
    Round(removed.panic # "none" \/ removed.order = <<>>, removed.book,
          t.taker, <<m>>, <<t.maker>>)

\* The round after the handle is released, which left the book released.book.
round_released(m, t, released) ==
    IF released.panic # "none"
    THEN Round(TRUE, released.book, t.taker, <<m>>, <<t.maker>>)
    ELSE IF ~LimitOrder_is_closed(t.maker)
    THEN Round(FALSE, released.book, t.taker, <<m>>, <<t.maker>>)
    ELSE round_removed(m, t, Orderbook_remove(released.book, t.maker.id))

\* The round after top_order.trade(&mut incoming_order), whose result is t.
round_traded(b, order, m, t) ==
    IF t.result # "Ok" THEN Round(TRUE, b, order, <<>>, <<>>)
    ELSE round_released(m, t, OrderRefMut_drop(b, t.maker))

\* The round after exchange.peek_mut(opposite side), whose result is top.
round_peeked(b, order, top) ==
    IF top.panic # "none" \/ top.order = <<>>
    THEN Round(TRUE, b, order, <<>>, <<>>)
    ELSE round_traded(b, order, top.order[1],
                      Trade_try_new(top.order[1], order))

\* One round of the while loop, entered with an open taker.
loop_round(b, order) ==
    round_peeked(b, order, Orderbook_peek_mut(b, opposite(order.side)))

\* The number of rounds the while loop performs on the book b for the order
\* that the before policies left.
RECURSIVE loop_iterations(_, _)
loop_iterations(b, order) ==
    IF Order_is_closed(order) THEN 0
    ELSE LET round == loop_round(b, order)
         IN  IF round.exit THEN 1
             ELSE 1 + loop_iterations(round.book, round.taker)

\* The taker is Completed, or the maker is completely filled and gone from
\* the book.
RoundProgress(round) ==
    \/ round.taker.status = "Completed"
    \/ /\ round.maker[1].status = "Completed"
       /\ LimitOrder_remaining(round.maker[1]) = 0
       /\ round.maker[1].id \notin DOMAIN round.book.orders_by_id

\* Every round that does not leave the loop makes progress.
RECURSIVE loop_progress(_, _)
loop_progress(b, order) ==
    IF Order_is_closed(order) THEN TRUE
    ELSE LET round == loop_round(b, order)
         IN  IF round.exit THEN TRUE
             ELSE RoundProgress(round) /\ loop_progress(round.book, round.taker)

\* The taker as the before policies of the last matching call left it.
Policed == before_policies(Incoming, book_before).order

RECURSIVE RemainingSum(_)
RemainingSum(orders) ==
    IF orders = <<>> THEN 0
    ELSE LimitOrder_remaining(Head(orders)) + RemainingSum(Tail(orders))

\* Orderbook::volume, one side of it: the remaining quantities of iter(side)
\* added up.
Orderbook_volume(b, side) ==
    [volume |-> RemainingSum(Orderbook_iter(b, side).orders),
     panic |-> Orderbook_iter(b, side).panic]

RECURSIVE TradedQuantity(_)
TradedQuantity(ts) ==
    IF ts = <<>> THEN 0 ELSE Head(ts).quantity + TradedQuantity(Tail(ts))

RECURSIVE TradedNotional(_)
TradedNotional(ts) ==
    IF ts = <<>> THEN 0 ELSE Head(ts).notional + TradedNotional(Tail(ts))

\* C37: the quantities of the trades of a matching call for a quantity-priced
\* taker add up to the increase of the taker's filled amount and to the
\* decrease of the volume of the opposite side; for a funds-priced taker the
\* notionals of the trades add up to its filled funds, which do not exceed
\* its funds.
C37_Conservation ==
    last_op.name = "matching" =>
        IF FundsPriced(Incoming)
        THEN /\ TradedNotional(trades) = incoming_order.filled - Incoming.filled
             /\ incoming_order.filled <= Incoming.quantity
        ELSE /\ TradedQuantity(trades) = incoming_order.filled - Incoming.filled
             /\ Orderbook_volume(TheBook, opposite(Incoming.side)).panic = "none"
             /\ TradedQuantity(trades)
                    = Orderbook_volume(book_before, opposite(Incoming.side)).volume
                      - Orderbook_volume(TheBook, opposite(Incoming.side)).volume

\* ------------------------------------------------- the frame of a matching
\* The ids of a side hold the same orders in both books.
SameOrders(b, c, ids) ==
    \A i \in 1..Len(ids) :
        /\ ids[i] \in DOMAIN b.orders_by_id
        /\ ids[i] \in DOMAIN c.orders_by_id
        /\ b.orders_by_id[ids[i]] = c.orders_by_id[ids[i]]

\* The taker's own side after the call: every level as before, but for the
\* taker's id at the tail of the level of its limit price.
OwnSideKept ==
    LET side == Incoming.side
    IN  /\ \A price \in Prices :
              \/ LevelOf(TheBook, side, price) = LevelOf(book_before, side, price)
              \/ /\ price = Incoming.limit_price
                 /\ LevelOf(TheBook, side, price)
                        = Append(LevelOf(book_before, side, price), Incoming.id)
        /\ SameOrders(book_before, TheBook,
                      OrdersBySide_iter(book_before.orders_by_side, side))

\* The opposite side after the call: what is left is a tail of the side in
\* priority order, and behind its first order nothing has changed.
OppositePrefixChanged ==
    LET side == opposite(Incoming.side)
        before == OrdersBySide_iter(book_before.orders_by_side, side)
        after == OrdersBySide_iter(orders_by_side, side)
    IN  /\ Len(after) <= Len(before)
        /\ after = SubSeq(before, Len(before) - Len(after) + 1, Len(before))
        /\ SameOrders(book_before, TheBook, SubSeq(after, 2, Len(after)))

\* C38: a matching call leaves the orders resting on the taker's own side as
\* they were, in their FIFO positions, the residual of the taker at the tail
\* of its price level being the only change there; on the opposite side it
\* changes only a prefix in priority order.
C38_MatchingFrame ==
    last_op.name = "matching" => OwnSideKept /\ OppositePrefixChanged

\* ------------------------------------------ remove behind the front of a level
\* The last operation is remove(id) of an order whose id is in the level of
\* its side and price, behind the front.
RemovesBehindFront ==
    /\ last_op.name = "remove"
    /\ last_op.id \in DOMAIN book_before.orders_by_id
    /\ Position(LevelOf(book_before,
                        book_before.orders_by_id[last_op.id].side,
                        book_before.orders_by_id[last_op.id].unit_price),
                last_op.id) > 1

\* C39: remove(id) of an order that is not at the front of its level deletes
\* exactly that id: the other ids of the level keep their relative order, the
\* key of the level stays, every other level of both sides and every other
\* order of OrdersById is unchanged.
C39_RemoveBehindFront ==
    RemovesBehindFront =>
        LET order == book_before.orders_by_id[last_op.id]
            level == LevelOf(book_before, order.side, order.unit_price)
        IN  /\ failure = "none"
            /\ last_op.found = <<order>>
            /\ order.unit_price \in DOMAIN orders_by_side[order.side]
            /\ orders_by_side[order.side][order.unit_price]
                   = Without(level, last_op.id)
            /\ Len(orders_by_side[order.side][order.unit_price]) = Len(level) - 1
            /\ \A side \in OrderSide :
                   /\ DOMAIN orders_by_side[side]
                          = DOMAIN book_before.orders_by_side[side]
                   /\ \A price \in DOMAIN orders_by_side[side] :
                          (side # order.side \/ price # order.unit_price) =>
                              orders_by_side[side][price]
                                  = book_before.orders_by_side[side][price]
            /\ orders_by_id = MapRemove(book_before.orders_by_id, last_op.id)

====
